---- MODULE Spec2Model ----
(***************************************************************************)
(* Model of the "explainable" configuration library: the Explained value   *)
(* wrapper and its merge (src/core/explained.ts), the ConfigResolver       *)
(* (src/config/resolver.ts) and the tsconfig extends-chain adapter         *)
(* (src/adapters/tsconfig.ts).                                             *)
(*                                                                         *)
(* Strings that the code splits or joins (field paths) are sequences of    *)
(* tokens; "." is the separator token, so "compilerOptions.strict" is      *)
(* <<"compilerOptions", ".", "strict">>.                                   *)
(* JS objects are sequences of [k, v] pairs in insertion order.            *)
(***************************************************************************)
EXTENDS Integers, Sequences, FiniteSets, TLC

VARIABLES
  now,       \* Date.now(): the wall clock in milliseconds, never decreasing
  sources,   \* ConfigResolver.sources
  pool,      \* the Explained instances a caller has created with Explained.from
  fs,        \* the file system: for every path, whether a file is there and what it holds
  stack,     \* the active calls of resolveTSConfigChain, innermost last
  visited,   \* the visited set that the calls of one walk share
  builder,   \* the ConfigBuilder: its sources and its currentPrecedence
  calls,     \* what the caller has added to the builder since it last cleared it
  cleared,   \* whether the caller has cleared a builder that held sources
  ledger,    \* an Explained instance under construction
  last,      \* what the resolve() call before the latest call returned
  ret        \* the value returned (or the error thrown) by the last call

vars ==
  <<now, sources, pool, fs, stack, visited, builder, calls, cleared, ledger, last, ret>>

tsVars == <<fs, stack, visited>>

apiVars == <<builder, calls, cleared, ledger, last>>

----------------------------------------------------------------------------
(* Bounds of the model *)

MaxSources == 3
MaxPool == 2
MaxTime == 1

----------------------------------------------------------------------------
(* JS values *)

\* a value is [t: its type, n: the number or boolean it holds, s: the text of a
\* string or the elements of an array of strings, o: the own properties]
Num(n) == [t |-> "number", n |-> n, s |-> <<>>, o |-> <<>>]
Bool(b) == [t |-> "boolean", n |-> IF b THEN 1 ELSE 0, s |-> <<>>, o |-> <<>>]
Str(x) == [t |-> "string", n |-> 0, s |-> <<x>>, o |-> <<>>]
Null == [t |-> "null", n |-> 0, s |-> <<>>, o |-> <<>>]
Undefined == [t |-> "undefined", n |-> 0, s |-> <<>>, o |-> <<>>]
Arr(elements) == [t |-> "array", n |-> 0, s |-> elements, o |-> <<>>]
Obj(pairs) == [t |-> "object", n |-> 0, s |-> <<>>, o |-> pairs]

Range(s) == {s[i] : i \in DOMAIN s}

\* Object.keys(obj): own keys in insertion order
ObjectKeys(obj) == [i \in DOMAIN obj.o |-> obj.o[i].k]

\* key in obj
HasKey(obj, key) == \E i \in DOMAIN obj.o : obj.o[i].k = key

\* obj[key]
GetProp(obj, key) ==
  IF HasKey(obj, key)
  THEN obj.o[CHOOSE i \in DOMAIN obj.o : obj.o[i].k = key].v
  ELSE Undefined

\* obj[key] = value: an existing key keeps its position
SetProp(obj, key, value) ==
  IF HasKey(obj, key)
  THEN [obj EXCEPT !.o = [i \in DOMAIN obj.o |->
             IF obj.o[i].k = key THEN [k |-> key, v |-> value] ELSE obj.o[i]]]
  ELSE [obj EXCEPT !.o = Append(obj.o, [k |-> key, v |-> value])]

\* typeof v === 'object' && v !== null
IsObjectLike(v) == v.t \in {"object", "array"}

----------------------------------------------------------------------------
(* Explained<T>: [value, explanations]; explanations is the Map, a sequence *)
(* of [path, exps] entries in insertion order.                              *)

ROOT == <<"__root__">>

NoPath == <<>>

NewExplained(value, explanations) == [value |-> value, explanations |-> explanations]

MapHas(m, path) == \E i \in DOMAIN m : m[i].path = path

MapGet(m, path) ==
  IF MapHas(m, path) THEN m[CHOOSE i \in DOMAIN m : m[i].path = path].exps ELSE <<>>

MapSet(m, path, exps) ==
  IF MapHas(m, path)
  THEN [i \in DOMAIN m |-> IF m[i].path = path THEN [path |-> path, exps |-> exps] ELSE m[i]]
  ELSE Append(m, [path |-> path, exps |-> exps])

\* explain(path): path || '__root__', then get(key) || []
explain(e, path) == MapGet(e.explanations, IF path = NoPath THEN ROOT ELSE path)

explainWinners(e, path) == SelectSeq(explain(e, path), LAMBDA x : x.won)

_addExplanation(e, path, explanation) ==
  NewExplained(e.value, MapSet(e.explanations, path,
                               Append(MapGet(e.explanations, path), explanation)))

_setExplanations(e, path, exps) ==
  NewExplained(e.value, MapSet(e.explanations, path, exps))

_getPaths(e) == [i \in DOMAIN e.explanations |-> e.explanations[i].path]

\* Explained.from(value, source, reason, precedence, location) at time t
ExplainedFrom(value, source, reason, precedence, location, t) ==
  _addExplanation(NewExplained(value, <<>>), ROOT,
    [source |-> source, value |-> value, reason |-> reason,
     precedence |-> precedence, location |-> location,
     won |-> TRUE, timestamp |-> t])

\* the string 'undefined' that explainText shows for a missing final value
UndefinedText == Str("undefined")

\* explainText(path): the header's final value (winner?.value ?? 'undefined')
\* and the numbered lines of the decision chain, in the stored order
explainText(e, path) ==
  LET explanations == explain(e, path)
      winners == SelectSeq(explanations, LAMBDA x : x.won)
      finalValue == IF winners = <<>> \/ winners[1].value \in {Null, Undefined}
                    THEN UndefinedText ELSE winners[1].value
  IN IF Len(explanations) = 0
     THEN [found |-> FALSE, finalValue |-> UndefinedText, chain |-> <<>>]
     ELSE [found |-> TRUE, finalValue |-> finalValue,
           chain |-> [index \in DOMAIN explanations |->
                       [n |-> index, won |-> explanations[index].won,
                        source |-> explanations[index].source,
                        value |-> explanations[index].value,
                        reason |-> explanations[index].reason]]]

----------------------------------------------------------------------------
(* Explained.merge *)

RECURSIVE AddAll(_, _)
\* keys.forEach(key => allKeys.add(key)) on an insertion-ordered Set
AddAll(allKeys, keys) ==
  IF keys = <<>> THEN allKeys
  ELSE AddAll(IF Head(keys) \in Range(allKeys) THEN allKeys
              ELSE Append(allKeys, Head(keys)), Tail(keys))

\* variant: only the keys of the last input are collected
CollectKeysLast(explaineds) ==
  IF explaineds = <<>> THEN <<>>
  ELSE IF IsObjectLike(explaineds[Len(explaineds)].value)
       THEN ObjectKeys(explaineds[Len(explaineds)].value) ELSE <<>>

RECURSIVE CollectKeys(_)
CollectKeys(explaineds) ==
  IF explaineds = <<>> THEN <<>>
  ELSE LET n == Len(explaineds)
           before == CollectKeys(SubSeq(explaineds, 1, n - 1))
           e == explaineds[n]
       IN IF IsObjectLike(e.value) THEN AddAll(before, ObjectKeys(e.value))
          ELSE before

\* variant: the provenance comes from the latest root explanation
CandidateLatest(e, key) ==
  LET rootExp == explain(e, NoPath)[Len(explain(e, NoPath))]
  IN [source |-> rootExp.source, value |-> GetProp(e.value, key),
      reason |-> rootExp.reason, precedence |-> rootExp.precedence,
      location |-> rootExp.location, won |-> FALSE,
      timestamp |-> rootExp.timestamp]

\* the candidate of one input for one key: the input's first root explanation
\* with the field's value and won = false
Candidate(e, key) ==
  LET rootExp == explain(e, NoPath)[1]
  IN [source |-> rootExp.source, value |-> GetProp(e.value, key),
      reason |-> rootExp.reason, precedence |-> rootExp.precedence,
      location |-> rootExp.location, won |-> FALSE,
      timestamp |-> rootExp.timestamp]

\* variant: a key holding null or undefined does not compete
CompetesDefined(e, key) ==
  /\ e.value.t = "object"
  /\ HasKey(e.value, key)
  /\ GetProp(e.value, key) \notin {Null, Undefined}

\* value && key in value
Competes(e, key) == e.value.t = "object" /\ HasKey(e.value, key)

RECURSIVE CandidatesFor(_, _)
CandidatesFor(explaineds, key) ==
  IF explaineds = <<>> THEN <<>>
  ELSE LET n == Len(explaineds)
           before == CandidatesFor(SubSeq(explaineds, 1, n - 1), key)
           e == explaineds[n]
       IN IF Competes(e, key) /\ Len(explain(e, NoPath)) > 0
          THEN Append(before, Candidate(e, key))
          ELSE before

\* variant: precedence compared the other way round
CompareExplanationsAscending(a, b) ==
  IF b.precedence # a.precedence
  THEN a.precedence - b.precedence
  ELSE a.timestamp - b.timestamp

\* the comparator of explanationsForKey.sort
CompareExplanations(a, b) ==
  IF b.precedence # a.precedence
  THEN b.precedence - a.precedence
  ELSE a.timestamp - b.timestamp

\* variant: the position depends on the precedence alone
InsertExplanationByPrecedence(sorted, x) ==
  LET p == Cardinality({i \in DOMAIN sorted : sorted[i].precedence >= x.precedence})
  IN SubSeq(sorted, 1, p) \o <<x>> \o SubSeq(sorted, p + 1, Len(sorted))

\* one step of a stable sort: x goes behind every element that does not
\* compare greater than it
InsertExplanation(sorted, x) ==
  LET p == Cardinality({i \in DOMAIN sorted : CompareExplanations(sorted[i], x) <= 0})
  IN SubSeq(sorted, 1, p) \o <<x>> \o SubSeq(sorted, p + 1, Len(sorted))

RECURSIVE SortExplanations(_)
\* Array.prototype.sort is stable
SortExplanations(s) ==
  IF s = <<>> THEN <<>>
  ELSE InsertExplanation(SortExplanations(SubSeq(s, 1, Len(s) - 1)), s[Len(s)])

\* variant: every explanation that shares the top precedence is marked
MarkWinnerTies(sorted) ==
  [i \in DOMAIN sorted |->
    IF sorted[i].precedence = sorted[1].precedence
    THEN [sorted[i] EXCEPT !.won = TRUE] ELSE sorted[i]]

\* explanationsForKey[0].won = true
MarkWinner(sorted) ==
  [i \in DOMAIN sorted |-> IF i = 1 THEN [sorted[i] EXCEPT !.won = TRUE] ELSE sorted[i]]

RECURSIVE AssignAll(_, _)
\* the own properties of the objects among exps, the later ones first
AssignAll(exps, acc) ==
  IF exps = <<>> THEN acc
  ELSE LET pairs == exps[Len(exps)].value.o
           RECURSIVE Put(_, _)
           Put(ps, obj) == IF ps = <<>> THEN obj
                           ELSE Put(Tail(ps), SetProp(obj, Head(ps).k, Head(ps).v))
       IN AssignAll(SubSeq(exps, 1, Len(exps) - 1), Put(pairs, acc))

\* variant: candidates that are all objects are merged property by property
WinningValueDeep(exps) ==
  IF \A i \in DOMAIN exps : exps[i].value.t = "object"
  THEN AssignAll(exps, Obj(<<>>))
  ELSE exps[1].value

\* mergedValue[key] = explanationsForKey[0].value
WinningValue(exps) == exps[1].value

RECURSIVE MergeKeys(_, _, _)
\* for (const key of allKeys) { ... }
MergeKeys(explaineds, keys, acc) ==
  IF keys = <<>> THEN acc
  ELSE LET key == Head(keys)
           sorted == SortExplanations(CandidatesFor(explaineds, key))
           exps == MarkWinner(sorted)
       IN MergeKeys(explaineds, Tail(keys),
            IF Len(sorted) > 0
            THEN NewExplained(SetProp(acc.value, key, WinningValue(exps)),
                              MapSet(acc.explanations, key, exps))
            ELSE acc)

merge(explaineds) ==
  MergeKeys(explaineds, CollectKeys(explaineds), NewExplained(Obj(<<>>), <<>>))

----------------------------------------------------------------------------
(* ConfigResolver *)

\* sources.push({ data, source })
addSource(srcs, data, source) == Append(srcs, [data |-> data, source |-> source])

InsertSource(sorted, x) ==
  LET p == Cardinality({i \in DOMAIN sorted :
                          sorted[i].source.precedence - x.source.precedence <= 0})
  IN SubSeq(sorted, 1, p) \o <<x>> \o SubSeq(sorted, p + 1, Len(sorted))

RECURSIVE SortSources(_)
\* [...this.sources].sort((a, b) => a.source.precedence - b.source.precedence)
SortSources(s) ==
  IF s = <<>> THEN <<>>
  ELSE InsertSource(SortSources(SubSeq(s, 1, Len(s) - 1)), s[Len(s)])

NoString == "undefined"

\* variant: the reason is passed on as it was given
ReasonAsGiven(source) == <<source.reason>>

\* source.reason || `From ${source.name}`
ReasonOf(source) ==
  IF source.reason = NoString THEN <<"From ", source.name>> ELSE <<source.reason>>

\* sortedSources.map(... Explained.from ...); ts[i] is Date.now() in the i-th call
ExplainedSources(srcs, ts) ==
  LET sortedSources == SortSources(srcs)
  IN [i \in DOMAIN sortedSources |->
       ExplainedFrom(sortedSources[i].data, sortedSources[i].source.name,
                     ReasonOf(sortedSources[i].source),
                     sortedSources[i].source.precedence,
                     sortedSources[i].source.location, ts[i])]

\* variant: no early return, and the empty result carries a root explanation
resolveRooted(srcs, ts) ==
  IF Len(srcs) = 0
  THEN ExplainedFrom(Obj(<<>>), "empty", <<"No sources">>, 0, NoString, 0)
  ELSE merge(ExplainedSources(srcs, ts))

resolve(srcs, ts) ==
  IF Len(srcs) = 0
  THEN NewExplained(Obj(<<>>), <<>>)
  ELSE merge(ExplainedSources(srcs, ts))

----------------------------------------------------------------------------
(* Inputs *)

port == <<"port">>
host == <<"host">>

Datas ==
  { Obj(<<[k |-> port, v |-> Num(8080)], [k |-> host, v |-> Num(1)]>>),
    Obj(<<[k |-> port, v |-> Num(3000)]>>),
    Obj(<<[k |-> host, v |-> Undefined], [k |-> port, v |-> Null]>>) }

Meta(name, precedence, reason, location) ==
  [name |-> name, precedence |-> precedence, reason |-> reason, location |-> location]

Metas ==
  { Meta("defaults", 0, "Built-in defaults", NoString),
    Meta("env", 10, NoString, NoString),
    Meta("file", 10, NoString, "config.json"),
    Meta("cli", 20, "Command-line arguments", NoString) }

\* the values of Date.now() in n successive calls, the first not before `from`
Timestamps(from, n) ==
  {ts \in [1..n -> from..MaxTime] : \A i \in 1..n : \A j \in i..n : ts[i] <= ts[j]}

LastTime(from, ts) == IF Len(ts) = 0 THEN from ELSE ts[Len(ts)]

NoRet == [op |-> "none"]

\* new ConfigBuilder(): sources = [], currentPrecedence = 0
NewBuilder == [sources |-> <<>>, currentPrecedence |-> 0]

----------------------------------------------------------------------------
(* The resolver as a state machine *)

\* the paths a file can be at
Files == {"/a.json", "/b.json", "/c.json", "/d.json"}

Missing == [status |-> "missing", config |-> Obj(<<>>)]

Init ==
  /\ now = 0
  /\ sources = <<>>
  /\ pool = <<>>
  /\ fs = [p \in Files |-> Missing]
  /\ stack = <<>>
  /\ visited = {}
  /\ builder = NewBuilder
  /\ calls = <<>>
  /\ cleared = FALSE
  /\ last = NoRet
  /\ ledger = NewExplained(Obj(<<>>), <<>>)
  /\ ret = NoRet

AddSource ==
  /\ Len(sources) < MaxSources
  /\ \E data \in Datas, source \in Metas :
       sources' = addSource(sources, data, source)
  /\ ret' = [op |-> "addSource"]
  /\ UNCHANGED <<now, pool, tsVars, apiVars>>

Resolve ==
  /\ \E ts \in Timestamps(now, Len(sources)) :
       /\ ret' = [op |-> "resolve", result |-> resolve(sources, ts),
                  inputs |-> ExplainedSources(sources, ts), added |-> sources]
       /\ now' = LastTime(now, ts)
  /\ UNCHANGED <<sources, pool, tsVars, apiVars>>

Next == AddSource \/ Resolve

Spec == Init /\ [][Next]_vars

----------------------------------------------------------------------------
(* The core API used directly: Explained.from, then Explained.merge with   *)
(* the instances as arguments in any order                                  *)

\* the argument lists: sequences of distinct instances of the pool
ArgLists ==
  UNION {{a \in [1..n -> DOMAIN pool] : \A i, j \in 1..n : i # j => a[i] # a[j]} :
           n \in 0..Len(pool)}

CoreFrom ==
  /\ Len(pool) < MaxPool
  /\ \E data \in Datas, source \in Metas, t \in now..MaxTime :
       /\ pool' = Append(pool, ExplainedFrom(data, source.name, ReasonOf(source),
                                             source.precedence, source.location, t))
       /\ now' = t
  /\ ret' = [op |-> "from"]
  /\ UNCHANGED <<sources, tsVars, apiVars>>

CoreMerge ==
  /\ \E args \in ArgLists :
       ret' = [op |-> "merge", result |-> merge([i \in DOMAIN args |-> pool[args[i]]]),
               inputs |-> [i \in DOMAIN args |-> pool[args[i]]], args |-> args]
  /\ UNCHANGED <<now, sources, pool, tsVars, apiVars>>

NextCore == CoreFrom \/ CoreMerge

SpecCore == Init /\ [][NextCore]_vars

----------------------------------------------------------------------------
(* Properties of the merge *)

IsMergeResult == ret.op \in {"resolve", "merge"}

RootOf(e) == explain(e, NoPath)[1]

\* every key of every input of the last merge
InputKeys == UNION {Range(ObjectKeys(ret.inputs[i].value)) : i \in DOMAIN ret.inputs}

\* the inputs of the last merge that contain the key
InputsWith(key) == {i \in DOMAIN ret.inputs : HasKey(ret.inputs[i].value, key)}

WinnersAt(exps) == {j \in DOMAIN exps : exps[j].won}

SingleWinnerIn(e) ==
  \A i \in DOMAIN e.explanations :
    LET path == e.explanations[i].path
        exps == e.explanations[i].exps
    IN Len(exps) >= 1 =>
         /\ Cardinality(WinnersAt(exps)) = 1
         /\ \A j \in WinnersAt(exps) :
              HasKey(e.value, path) /\ GetProp(e.value, path) = exps[j].value

\* C1: after resolve() or merge(), every path with at least one explanation
\* has exactly one explanation with won = true, and that explanation's value
\* is the merged value's field at the path.
C1_SingleWinner == IsMergeResult => SingleWinnerIn(ret.result)

C1_Witness ==
  /\ ret.op = "resolve"
  /\ \E i \in DOMAIN ret.result.explanations :
       LET exps == ret.result.explanations[i].exps
       IN /\ Len(exps) >= 2
          /\ exps[1].precedence = exps[2].precedence
          /\ exps[1].value # exps[2].value

\* C2: the winner of a field never has a lower precedence than an input that
\* contains the field, in whatever order the inputs were given.
C2_HigherPrecedenceWins ==
  IsMergeResult =>
    \A key \in InputKeys :
      LET exps == explain(ret.result, key)
      IN /\ WinnersAt(exps) # {}
         /\ \A j \in WinnersAt(exps) : \A i \in InputsWith(key) :
              exps[j].precedence >= RootOf(ret.inputs[i]).precedence

\* the sources were added with the higher precedence first and the field's
\* winner is the source added first
C2_Witness ==
  /\ ret.op = "resolve"
  /\ Len(ret.added) >= 2
  /\ ret.added[1].source.precedence > ret.added[2].source.precedence
  /\ HasKey(ret.added[1].data, port) /\ HasKey(ret.added[2].data, port)
  /\ GetProp(ret.added[1].data, port) # GetProp(ret.added[2].data, port)
  /\ \E j \in WinnersAt(explain(ret.result, port)) :
       explain(ret.result, port)[j].source = ret.added[1].source.name

\* what was registered for the last merge, in registration order: the
\* addSource calls of the resolver, or the Explained.from calls (by creation)
\* of the instances given to merge
Registered ==
  IF ret.op = "resolve"
  THEN [i \in DOMAIN ret.added |->
         [value |-> ret.added[i].data, source |-> ret.added[i].source.name,
          precedence |-> ret.added[i].source.precedence]]
  ELSE LET created == SelectSeq([i \in DOMAIN pool |-> i],
                                LAMBDA i : i \in Range(ret.args))
       IN [i \in DOMAIN created |->
            [value |-> pool[created[i]].value,
             source |-> RootOf(pool[created[i]]).source,
             precedence |-> RootOf(pool[created[i]]).precedence]]

\* the first registered among those that hold the key with the top precedence
FirstTop(key) ==
  LET with == {i \in DOMAIN Registered : HasKey(Registered[i].value, key)}
      top == {i \in with : \A j \in with :
                Registered[i].precedence >= Registered[j].precedence}
  IN CHOOSE i \in top : \A j \in top : i <= j

FirstRegisteredWins ==
  \A key \in InputKeys :
    LET exps == explain(ret.result, key)
        first == Registered[FirstTop(key)]
    IN \A j \in WinnersAt(exps) :
         /\ exps[j].source = first.source
         /\ exps[j].value = GetProp(first.value, key)

\* C3: among the sources that share the highest precedence for a field, the
\* one registered first (earliest addSource call, earliest Explained.from
\* creation) wins, for every non-decreasing assignment of timestamps.
C3_FirstRegisteredWins == IsMergeResult => FirstRegisteredWins

\* C4: the merged value's key set is the union of the added sources' key
\* sets, and a field of exactly one source takes that source's value.
C4_UnionOfKeys ==
  ret.op = "resolve" =>
    /\ Range(ObjectKeys(ret.result.value)) =
         UNION {Range(ObjectKeys(ret.added[i].data)) : i \in DOMAIN ret.added}
    /\ \A i \in DOMAIN ret.added : \A key \in Range(ObjectKeys(ret.added[i].data)) :
         (\A j \in DOMAIN ret.added : HasKey(ret.added[j].data, key) => j = i)
           => GetProp(ret.result.value, key) = GetProp(ret.added[i].data, key)

\* host comes from the lowest-precedence source alone, port from another one
C4_Witness ==
  /\ ret.op = "resolve"
  /\ Len(ret.added) = 3
  /\ \E i \in DOMAIN ret.added :
       /\ HasKey(ret.added[i].data, host)
       /\ \A j \in DOMAIN ret.added \ {i} :
            /\ ~HasKey(ret.added[j].data, host)
            /\ ret.added[j].source.precedence > ret.added[i].source.precedence
       /\ GetProp(ret.result.value, host) = GetProp(ret.added[i].data, host)
       /\ GetProp(ret.result.value, port) # GetProp(ret.added[i].data, port)

\* C5: resolving with zero sources returns an empty object and a ledger with
\* no paths.
C5_EmptyInput ==
  (IsMergeResult /\ Len(ret.inputs) = 0) =>
    /\ ret.result.value = Obj(<<>>)
    /\ _getPaths(ret.result) = <<>>
    /\ explain(ret.result, NoPath) = <<>>

C5_Witness == ret.op = "resolve" /\ ret.added = <<>> /\ ret.result.value = Obj(<<>>)

\* C6: explain(field) lists the competing sources in ascending precedence
\* order with the winner last, and so does the decision chain of explainText.
C6_AscendingWinnerLast ==
  ret.op = "resolve" =>
    \A key \in InputKeys :
      LET exps == explain(ret.result, key)
          chain == explainText(ret.result, key).chain
      IN /\ \A i, j \in DOMAIN exps :
              i < j => exps[i].precedence <= exps[j].precedence
         /\ exps[Len(exps)].won
         /\ chain[Len(chain)].won /\ chain[Len(chain)].n = Len(exps)

\* C7: a source whose data holds a key with null or undefined competes for
\* the key like any other, and its null/undefined wins with top precedence.
C7_NullCompetes ==
  ret.op = "resolve" =>
    \A i \in DOMAIN ret.added : \A key \in Range(ObjectKeys(ret.added[i].data)) :
      LET exps == explain(ret.result, key)
          with == {j \in DOMAIN ret.added : HasKey(ret.added[j].data, key)}
      IN /\ Len(exps) = Cardinality(with)
         /\ \E j \in DOMAIN exps :
              /\ exps[j].source = ret.added[i].source.name
              /\ exps[j].value = GetProp(ret.added[i].data, key)
         /\ (\A j \in with \ {i} :
               ret.added[j].source.precedence < ret.added[i].source.precedence)
              => GetProp(ret.result.value, key) = GetProp(ret.added[i].data, key)

\* the top source sets port to null, a lower one sets it to a number
C7_Witness ==
  /\ ret.op = "resolve"
  /\ \E i, j \in DOMAIN ret.added :
       /\ GetProp(ret.added[i].data, port) = Null
       /\ HasKey(ret.added[j].data, port)
       /\ GetProp(ret.added[j].data, port).t = "number"
       /\ ret.added[j].source.precedence < ret.added[i].source.precedence
  /\ \A j \in DOMAIN ret.added : HasKey(ret.added[j].data, port) =>
       ret.added[j].source.precedence <= 10
  /\ GetProp(ret.result.value, port) = Null
  /\ Len(explain(ret.result, port)) >= 2

----------------------------------------------------------------------------
(* The tsconfig adapter.  Every reference is an absolute path or a package *)
(* name, so that resolve(baseDir, configPath) is configPath itself.        *)

extendsKey == <<"extends">>

Dot == "."

\* the references that start with neither '.' nor '/'
PackageRefs == {"pkg", "nopkg"}

\* what require.resolve finds from the base directory
Installed == [id \in {"pkg/tsconfig.json"} |-> "/d.json"]

Invalid == [status |-> "invalid", config |-> Obj(<<>>)]

existsSync(files, path) == path \in DOMAIN files /\ files[path].status # "missing"

NoError == "none"

resolveTSConfigPath(files, configPath) ==
  IF configPath \in PackageRefs
  THEN IF configPath \in DOMAIN Installed
       THEN [err |-> NoError, path |-> Installed[configPath]]
       ELSE IF (configPath \o "/tsconfig.json") \in DOMAIN Installed
       THEN [err |-> NoError, path |-> Installed[configPath \o "/tsconfig.json"]]
       ELSE [err |-> "Cannot resolve tsconfig package", path |-> configPath]
  ELSE IF existsSync(files, configPath)
       THEN [err |-> NoError, path |-> configPath]
       ELSE IF existsSync(files, configPath \o ".json")
       THEN [err |-> NoError, path |-> configPath \o ".json"]
       ELSE [err |-> "Cannot find tsconfig file", path |-> configPath]

\* variant: a file that cannot be read or parsed loads as an empty document
loadTSConfigLenient(files, configPath) ==
  IF files[configPath].status = "ok"
  THEN [err |-> NoError, config |-> files[configPath].config]
  ELSE [err |-> NoError, config |-> Obj(<<>>)]

\* readFileSync and JSON.parse: any failure is rethrown as 'Failed to parse'
loadTSConfig(files, configPath) ==
  IF files[configPath].status = "ok"
  THEN [err |-> NoError, config |-> files[configPath].config]
  ELSE [err |-> "Failed to parse", config |-> Obj(<<>>)]

\* config.extends is truthy
HasExtends(config) ==
  LET e == GetProp(config, extendsKey)
  IN e.t = "array" \/ (e.t = "string" /\ e.s # <<"">>)

\* Array.isArray(config.extends) ? config.extends : [config.extends]
extendsArray(config) ==
  IF HasExtends(config) THEN GetProp(config, extendsKey).s ELSE <<>>

\* precedence - (extendsArray.length - index), index counted from 0
ParentPrecedence(precedence, length, index) == precedence - (length - index)

\* variant: the visited set is never consulted
AlreadyVisitedNever(seen, fullPath) == FALSE

\* visited.has(fullPath)
AlreadyVisited(seen, fullPath) == fullPath \in seen

\* a call of resolveTSConfigChain that has not run yet
EnterFrame(configPath, precedence) ==
  [phase |-> "enter", configPath |-> configPath, precedence |-> precedence,
   fullPath |-> "", config |-> Obj(<<>>), index |-> 0, chain |-> <<>>]

\* the { path, config, precedence } that a call pushes for its own document
Resolution(frame) ==
  [path |-> frame.fullPath, config |-> frame.config, precedence |-> frame.precedence]

\* const { extends: _, ...configWithoutExtends } = config
WithoutExtends(config) ==
  [config EXCEPT !.o = SelectSeq(config.o, LAMBDA pair : pair.k # extendsKey)]

RECURSIVE ObjectAssign(_, _)
\* Object.assign(target, source)
ObjectAssign(target, pairs) ==
  IF pairs = <<>> THEN target
  ELSE ObjectAssign(SetProp(target, Head(pairs).k, Head(pairs).v), Tail(pairs))

RECURSIVE FlattenInto(_, _, _)
\* the loop of flattenObject over the own keys of obj, result being filled
FlattenInto(pairs, prefix, result) ==
  IF pairs = <<>> THEN result
  ELSE LET key == Head(pairs).k
           value == Head(pairs).v
           newKey == IF prefix # <<>> THEN prefix \o <<Dot>> \o key ELSE key
       IN FlattenInto(Tail(pairs), prefix,
            IF value.t = "object"
            THEN ObjectAssign(result, FlattenInto(value.o, newKey, Obj(<<>>)).o)
            ELSE SetProp(result, newKey, value))

flattenObject(obj, prefix) == FlattenInto(obj.o, prefix, Obj(<<>>))

RECURSIVE Split(_)
\* key.split('.')
Split(key) ==
  IF \A i \in DOMAIN key : key[i] # Dot THEN <<key>>
  ELSE LET i == CHOOSE i \in DOMAIN key :
                  key[i] = Dot /\ \A j \in 1..(i - 1) : key[j] # Dot
       IN <<SubSeq(key, 1, i - 1)>> \o Split(SubSeq(key, i + 1, Len(key)))

TypeError == [err |-> TRUE, value |-> Undefined]

RECURSIVE SetPath(_, _, _)
\* the inner loop and the final assignment of unflattenObject, from `current`
\* on: `in` and a property assignment throw a TypeError on a primitive (the
\* module is strict code) and on null
SetPath(current, keys, value) ==
  IF ~IsObjectLike(current) THEN TypeError
  ELSE IF Len(keys) = 1
  THEN [err |-> FALSE, value |-> SetProp(current, keys[1], value)]
  ELSE LET child == IF HasKey(current, keys[1]) THEN GetProp(current, keys[1])
                    ELSE Obj(<<>>)
           below == SetPath(child, Tail(keys), value)
       IN IF below.err THEN TypeError
          ELSE [err |-> FALSE, value |-> SetProp(current, keys[1], below.value)]

RECURSIVE UnflattenInto(_, _)
UnflattenInto(pairs, result) ==
  IF pairs = <<>> \/ result.err THEN result
  ELSE UnflattenInto(Tail(pairs),
                     SetPath(result.value, Split(Head(pairs).k), Head(pairs).v))

unflattenObject(flat) == UnflattenInto(flat.o, [err |-> FALSE, value |-> Obj(<<>>)])

\* chain.map(... Explained.from(flat, path, `From ${path}`, precedence, path))
FlatExplained(chain, ts) ==
  [i \in DOMAIN chain |->
    ExplainedFrom(flattenObject(WithoutExtends(chain[i].config), <<>>),
                  chain[i].path, <<"From ", chain[i].path>>,
                  chain[i].precedence, chain[i].path, ts[i])]

RECURSIVE CopyExplanations(_, _, _)
\* for (const path of mergedFlat._getPaths()) ... result._setExplanations
CopyExplanations(result, mergedFlat, paths) ==
  IF paths = <<>> THEN result
  ELSE LET explanations == explain(mergedFlat, Head(paths))
       IN CopyExplanations(
            IF Len(explanations) > 0
            THEN _setExplanations(result, Head(paths), explanations)
            ELSE result,
            mergedFlat, Tail(paths))

\* [err, result]: the Explained of the chain, or the TypeError of unflattenObject
mergeTSConfigs(chain, ts) ==
  LET mergedFlat == merge(FlatExplained(chain, ts))
      unflattened == unflattenObject(mergedFlat.value)
  IN IF unflattened.err
     THEN [err |-> "TypeError", result |-> NewExplained(Undefined, <<>>)]
     ELSE [err |-> NoError,
           result |-> CopyExplanations(NewExplained(unflattened.value, <<>>),
                                       mergedFlat, _getPaths(mergedFlat))]

----------------------------------------------------------------------------
(* The documents on disk *)

compilerOptions == <<"compilerOptions">>
strict == <<"strict">>
target == <<"target">>

StrictTarget ==
  Obj(<<[k |-> compilerOptions,
         v |-> Obj(<<[k |-> strict, v |-> Bool(FALSE)],
                     [k |-> target, v |-> Str("ES2018")]>>)]>>)

StrictOnly ==
  Obj(<<[k |-> compilerOptions, v |-> Obj(<<[k |-> strict, v |-> Bool(TRUE)]>>)]>>)

TargetOnly ==
  Obj(<<[k |-> compilerOptions, v |-> Obj(<<[k |-> target, v |-> Str("ES2020")]>>)]>>)

NullOptions == Obj(<<[k |-> compilerOptions, v |-> Null]>>)

BodiesOf(path) ==
  CASE path = "/a.json" -> {StrictOnly, NullOptions}
    [] path = "/b.json" -> {StrictTarget, NullOptions}
    [] path = "/c.json" -> {TargetOnly, StrictTarget}
    [] OTHER -> {StrictTarget}

NoExtends == Undefined

ExtendsOf(path) ==
  CASE path = "/a.json" ->
         {NoExtends, Str("/b"), Str("/a.json"), Str("/x"),
          Arr(<<"/b.json", "/c.json">>)}
    [] path = "/b.json" ->
         {NoExtends, Str("/a.json"), Str("/c.json"), Str("/d.json"),
          Arr(<<"/c.json", "/d.json">>)}
    [] path = "/c.json" -> {NoExtends, Str("pkg"), Str("/b"), Str("/d.json")}
    [] OTHER -> {NoExtends, Str("/b.json"), Str("nopkg")}

\* the parsed document: its extends (when it has one) before its other fields
Document(ext, body) ==
  IF ext = NoExtends THEN body
  ELSE Obj(<<[k |-> extendsKey, v |-> ext]>> \o body.o)

FileChoices(path) ==
  {Missing, Invalid} \cup
  {[status |-> "ok", config |-> Document(ext, body)] :
     ext \in ExtendsOf(path), body \in BodiesOf(path)}

EntryPath == "/a.json"

EntryPrecedence == 10

----------------------------------------------------------------------------
(* explainTSConfig(EntryPath) with followExtends, one step of the walk at a *)
(* time                                                                     *)

\* what can be on disk when explainTSConfig is called
FileSystems ==
  {[p \in Files |->
      CASE p = "/a.json" -> a [] p = "/b.json" -> b
        [] p = "/c.json" -> c [] OTHER -> d] :
     a \in FileChoices("/a.json"), b \in FileChoices("/b.json"),
     c \in FileChoices("/c.json"), d \in FileChoices("/d.json")}

Top == stack[Len(stack)]

Pop == SubSeq(stack, 1, Len(stack) - 1)

\* the stack after the innermost call has returned `chain` to its caller,
\* which pushes it on its own chain and goes on to its next parent
Returned(chain) ==
  LET rest == Pop
  IN IF rest = <<>> THEN rest
     ELSE [rest EXCEPT ![Len(rest)] =
             [@ EXCEPT !.chain = @ \o chain, !.index = @ + 1]]

\* explainTSConfig is called, on some file system:
\* resolveTSConfigChain(configPath, baseDir, 10)
TSCall ==
  /\ ret = NoRet /\ stack = <<>>
  /\ fs' \in FileSystems
  /\ stack' = <<EnterFrame(EntryPath, EntryPrecedence)>>
  /\ visited' = {}
  /\ ret' = [op |-> "call"]
  /\ UNCHANGED <<now, sources, pool, apiVars>>

\* the head of resolveTSConfigChain: resolve the path, consult and extend the
\* visited set, load the document
TSEnter ==
  /\ stack # <<>> /\ Top.phase = "enter"
  /\ LET resolved == resolveTSConfigPath(fs, Top.configPath)
         loaded == loadTSConfig(fs, resolved.path)
     IN IF resolved.err # NoError
        THEN /\ stack' = <<>>
             /\ ret' = [op |-> "explainTSConfig", err |-> resolved.err]
             /\ UNCHANGED visited
        ELSE IF AlreadyVisited(visited, resolved.path)
        THEN /\ stack' = Returned(<<>>)
             /\ ret' = IF Len(stack) = 1
                       THEN [op |-> "resolveTSConfigChain", chain |-> <<>>]
                       ELSE ret
             /\ UNCHANGED visited
        ELSE IF loaded.err # NoError
        THEN /\ stack' = <<>>
             /\ ret' = [op |-> "explainTSConfig", err |-> loaded.err]
             /\ visited' = visited \cup {resolved.path}
        ELSE /\ stack' = [stack EXCEPT ![Len(stack)] =
                            [@ EXCEPT !.phase = "parents",
                                      !.fullPath = resolved.path,
                                      !.config = loaded.config,
                                      !.index = 0]]
             /\ visited' = visited \cup {resolved.path}
             /\ UNCHANGED ret
  /\ UNCHANGED <<now, sources, pool, fs, apiVars>>

\* extendsArray.forEach: the recursive call for the next parent
TSDescend ==
  /\ stack # <<>> /\ Top.phase = "parents"
  /\ Top.index < Len(extendsArray(Top.config))
  /\ stack' = Append(stack,
       EnterFrame(extendsArray(Top.config)[Top.index + 1],
                  ParentPrecedence(Top.precedence, Len(extendsArray(Top.config)),
                                   Top.index)))
  /\ UNCHANGED <<now, sources, pool, fs, visited, ret, apiVars>>

\* chain.push({ path, config, precedence }); return chain
TSReturn ==
  /\ stack # <<>> /\ Top.phase = "parents"
  /\ Top.index >= Len(extendsArray(Top.config))
  /\ LET chain == Append(Top.chain, Resolution(Top))
     IN /\ stack' = Returned(chain)
        /\ ret' = IF Len(stack) = 1
                  THEN [op |-> "resolveTSConfigChain", chain |-> chain]
                  ELSE ret
  /\ UNCHANGED <<now, sources, pool, fs, visited, apiVars>>

\* the rest of explainTSConfig once the chain is there
TSMerge ==
  /\ ret.op = "resolveTSConfigChain"
  /\ IF Len(ret.chain) = 0
     THEN /\ ret' = [op |-> "explainTSConfig", err |-> "No tsconfig found"]
          /\ UNCHANGED now
     ELSE \E ts \in Timestamps(now, Len(ret.chain)) :
            LET merged == mergeTSConfigs(ret.chain, ts)
            IN /\ ret' = IF merged.err # NoError
                         THEN [op |-> "explainTSConfig", err |-> merged.err,
                               chain |-> ret.chain]
                         ELSE [op |-> "explainTSConfig", err |-> NoError,
                               chain |-> ret.chain, result |-> merged.result]
               /\ now' = LastTime(now, ts)
  /\ UNCHANGED <<sources, pool, tsVars, apiVars>>

NextTS == TSCall \/ TSEnter \/ TSDescend \/ TSReturn \/ TSMerge

SpecTS == Init /\ [][NextTS]_vars

\* a step of resolveTSConfigChain
WalkStep == TSEnter \/ TSDescend \/ TSReturn

\* the walk is synchronous code: a call that has a next step takes it
SpecTSFair == SpecTS /\ WF_vars(WalkStep)

----------------------------------------------------------------------------
(* Properties of the tsconfig adapter *)

RECURSIVE Walk(_, _)
\* the value reached from `value` along the segments of a dotted path
Walk(value, keys) ==
  IF keys = <<>> THEN value
  ELSE IF IsObjectLike(value) /\ HasKey(value, keys[1])
  THEN Walk(GetProp(value, keys[1]), Tail(keys))
  ELSE Undefined

\* the leaf paths of a document on disk
LeafPaths(path) == flattenObject(WithoutExtends(fs[path].config), <<>>)

\* the entry document extends exactly one document, which extends nothing
SingleParent ==
  /\ fs["/a.json"].status = "ok" /\ fs["/b.json"].status = "ok"
  /\ extendsArray(fs["/a.json"].config) \in {<<"/b">>, <<"/b.json">>}
  /\ ~HasExtends(fs["/b.json"].config)

\* C8: for a child that extends one parent, every leaf path set in both has
\* the child's value and two explanations, the child's the winner and the
\* parent's the loser; every leaf path set only in the parent has the
\* parent's value; the child's precedence is above the parent's.
C8_ChildOverridesParent ==
  (ret.op = "explainTSConfig" /\ SingleParent) =>
    /\ ret.err = NoError
    /\ \A key \in Range(ObjectKeys(LeafPaths("/b.json"))) :
         IF HasKey(LeafPaths("/a.json"), key)
         THEN /\ Walk(ret.result.value, Split(key)) = GetProp(LeafPaths("/a.json"), key)
              /\ Len(explain(ret.result, key)) = 2
              /\ \A j \in 1..2 :
                   explain(ret.result, key)[j].won =
                     (explain(ret.result, key)[j].source = "/a.json")
              /\ \E j \in 1..2 : explain(ret.result, key)[j].source = "/b.json"
         ELSE Walk(ret.result.value, Split(key)) = GetProp(LeafPaths("/b.json"), key)
    /\ \A i, j \in DOMAIN ret.chain :
         (ret.chain[i].path = "/a.json" /\ ret.chain[j].path = "/b.json")
           => ret.chain[i].precedence > ret.chain[j].precedence

ChainReturned ==
  \/ ret.op = "resolveTSConfigChain"
  \/ ret.op = "explainTSConfig" /\ "chain" \in DOMAIN ret

NoLocationTwice(chain) ==
  \A i, j \in DOMAIN chain : chain[i].path = chain[j].path => i = j

\* C9: for every graph of documents, cycles and diamonds included, the walk
\* comes to an end and the returned chain holds each location at most once.
C9_TerminatesEachOnce ==
  /\ (stack # <<>>) ~> (stack = <<>>)
  /\ [](ChainReturned => NoLocationTwice(ret.chain))

\* a two-document cycle was walked and each document is in the chain once
C9_Witness ==
  /\ ret.op = "explainTSConfig" /\ ret.err = NoError
  /\ extendsArray(fs["/a.json"].config) = <<"/b">>
  /\ fs["/b.json"].status = "ok"
  /\ extendsArray(fs["/b.json"].config) = <<"/a.json">>
  /\ Len(ret.chain) = 2

\* the locations that the references of the documents in `paths` resolve to
Parents(paths) ==
  {resolveTSConfigPath(fs, r).path :
     r \in {q \in UNION {Range(extendsArray(fs[p].config)) : p \in paths} :
              resolveTSConfigPath(fs, q).err = NoError}}

RECURSIVE ReachableFrom(_)
ReachableFrom(paths) ==
  LET more == paths \cup {p \in Parents({q \in paths : fs[q].status = "ok"}) : TRUE}
  IN IF more = paths THEN paths ELSE ReachableFrom(more)

\* a document reachable through extends from the entry document cannot be
\* located or cannot be parsed
SomeDocumentBroken ==
  \/ resolveTSConfigPath(fs, EntryPath).err # NoError
  \/ \E p \in ReachableFrom({EntryPath}) :
       \/ fs[p].status # "ok"
       \/ \E r \in Range(extendsArray(fs[p].config)) :
            resolveTSConfigPath(fs, r).err # NoError

\* C10: when a document reachable through extends cannot be located or
\* parsed, explainTSConfig fails with an error: no chain is returned and no
\* Explained result is produced.
C10_BrokenChainAborts ==
  SomeDocumentBroken =>
    /\ ~ChainReturned
    /\ ret.op = "explainTSConfig" => (ret.err # NoError /\ "result" \notin DOMAIN ret)

\* the grandparent cannot be parsed, after two documents were loaded
C10_Witness ==
  /\ ret.op = "explainTSConfig"
  /\ ret.err = "Failed to parse"
  /\ fs["/a.json"].status = "ok" /\ fs["/b.json"].status = "ok"
  /\ extendsArray(fs["/a.json"].config) = <<"/b">>
  /\ extendsArray(fs["/b.json"].config) = <<"/c.json">>
  /\ fs["/c.json"].status = "invalid"
  /\ visited = {"/a.json", "/b.json", "/c.json"}

----------------------------------------------------------------------------
(* flattenObject and unflattenObject on one document *)

keyA == <<"a">>
keyB == <<"b">>

\* the key 'a.b': one key whose text holds a dot
aDotB == <<"a", Dot, "b">>

\* the key '': the empty text
emptyKey == <<>>

NestedKeys == {keyA, keyB, aDotB, emptyKey}

\* what a key of a document can hold: scalars, null, an array, an empty
\* object, objects one and two levels deep
NestedValues ==
  { Num(1), Null, Arr(<<"x">>), Obj(<<>>),
    Obj(<<[k |-> keyB, v |-> Bool(TRUE)]>>),
    Obj(<<[k |-> keyA, v |-> Obj(<<[k |-> keyB, v |-> Str("s")]>>)]>>) }

\* the documents: one key, or two different keys
NestedDocuments ==
  {Obj(<<[k |-> key, v |-> value]>>) : key \in NestedKeys, value \in NestedValues}
  \cup
  {Obj(<<[k |-> ks[1], v |-> v1], [k |-> ks[2], v |-> v2]>>) :
     ks \in {pair \in NestedKeys \X NestedKeys : pair[1] # pair[2]},
     v1 \in NestedValues, v2 \in NestedValues}

\* flat = flattenObject(doc)
FlattenDocument ==
  /\ \E doc \in NestedDocuments :
       ret' = [op |-> "flattenObject", doc |-> doc, flat |-> flattenObject(doc, <<>>)]
  /\ UNCHANGED <<now, sources, pool, tsVars, apiVars>>

\* unflattenObject(flat)
UnflattenDocument ==
  /\ ret.op = "flattenObject"
  /\ ret' = [op |-> "unflattenObject", doc |-> ret.doc, flat |-> ret.flat,
             err |-> unflattenObject(ret.flat).err,
             result |-> unflattenObject(ret.flat).value]
  /\ UNCHANGED <<now, sources, pool, tsVars, apiVars>>

NextFlat == FlattenDocument \/ UnflattenDocument

SpecFlat == Init /\ [][NextFlat]_vars

RECURSIVE SameNesting(_, _)
\* the two values have the same nesting: objects with the same keys holding
\* values of the same nesting (key order aside), anything else equal
SameNesting(v, w) ==
  IF v.t = "object" /\ w.t = "object"
  THEN /\ Range(ObjectKeys(v)) = Range(ObjectKeys(w))
       /\ \A key \in Range(ObjectKeys(v)) : SameNesting(GetProp(v, key), GetProp(w, key))
  ELSE v = w

\* C11: for every nested document (plain objects, arrays, null and scalar
\* leaves, empty nested objects, keys of any text),
\* unflattenObject(flattenObject(doc)) does not fail and has the nesting of
\* the document.
C11_RoundTrip ==
  ret.op = "unflattenObject" => (~ret.err /\ SameNesting(ret.result, ret.doc))

----------------------------------------------------------------------------
(* The environment adapter: parseValue, parseEnv, explainEnv.  A schema is  *)
(* the sequence of its entries [key, type, default, required, envVar]; an   *)
(* environment maps a variable name to <<>> (not set) or <<text>>.          *)

\* the texts an environment variable can hold
Raws == {"8080", "abc", "", "TRUE"}

\* Number(value) is not NaN
IsNumber(value) == value \in {"8080", ""}

\* Number(value)
NumberOf(value) == IF value = "8080" THEN 8080 ELSE 0

\* value.toLowerCase()
toLowerCase(value) == IF value = "TRUE" THEN "true" ELSE value

\* key.toUpperCase()
toUpperCase(key) == IF key = "port" THEN "PORT" ELSE key

\* JSON.parse(value) succeeds
IsJSON(value) == value \in {"8080", "true"}

JSONParse(value) == IF value = "8080" THEN Num(8080) ELSE Bool(TRUE)

\* new Error(`Cannot parse "${value}" as ${what}`)
CannotParse(value, what) == <<"Cannot parse \"", value, "\" as ", what>>

\* [err, value]: the parsed value, or the message of the Error thrown
parseValue(value, type) ==
  CASE type = "string" -> [err |-> <<>>, value |-> Str(value)]
    [] type = "number" ->
         IF ~IsNumber(value)
         THEN [err |-> CannotParse(value, "number"), value |-> Undefined]
         ELSE [err |-> <<>>, value |-> Num(NumberOf(value))]
    [] type = "boolean" ->
         LET lower == toLowerCase(value)
         IN IF lower \in {"true", "1", "yes"}
            THEN [err |-> <<>>, value |-> Bool(TRUE)]
            ELSE IF lower \in {"false", "0", "no", ""}
            THEN [err |-> <<>>, value |-> Bool(FALSE)]
            ELSE [err |-> CannotParse(value, "boolean"), value |-> Undefined]
    [] type = "json" ->
         IF IsJSON(value) THEN [err |-> <<>>, value |-> JSONParse(value)]
         ELSE [err |-> CannotParse(value, "JSON"), value |-> Undefined]
    [] OTHER -> [err |-> <<>>, value |-> Str(value)]

\* field.envVar || key.toUpperCase()
envVarNameOf(field) ==
  IF field.envVar \notin {NoString, ""} THEN field.envVar ELSE toUpperCase(field.key[1])

\* `Required environment variable ${envVarName} is not set`
RequiredNotSet(envVarName) ==
  <<"Required environment variable ", envVarName, " is not set">>

\* one round of the loop of parseEnv over the schema
ParseField(field, env, acc) ==
  LET envVarName == envVarNameOf(field)
      envValue == env[envVarName]
      orDefault == IF field.required
                   THEN [acc EXCEPT !.errors = Append(@, [key |-> field.key,
                                          error |-> RequiredNotSet(envVarName)])]
                   ELSE IF field.default # Undefined
                   THEN [acc EXCEPT !.parsed = SetProp(@, field.key, field.default)]
                   ELSE acc
  IN IF envValue # <<>>
     THEN IF envValue[1] # "" \/ field.type = "boolean"
          THEN LET p == parseValue(envValue[1], field.type)
               IN IF p.err = <<>>
                  THEN [acc EXCEPT !.parsed = SetProp(@, field.key, p.value),
                                   !.used = Append(@, envVarName)]
                  ELSE [acc EXCEPT
                          !.errors = Append(@, [key |-> field.key, error |-> p.err]),
                          !.parsed = IF field.default # Undefined
                                     THEN SetProp(@, field.key, field.default) ELSE @]
          ELSE orDefault
     ELSE orDefault

RECURSIVE ParseFields(_, _, _)
ParseFields(schema, env, acc) ==
  IF schema = <<>> THEN acc
  ELSE ParseFields(Tail(schema), env, ParseField(Head(schema), env, acc))

\* { parsed, used, ignored, errors }
parseEnv(env, schema) ==
  LET result == ParseFields(schema, env,
                  [parsed |-> Obj(<<>>), used |-> <<>>, errors |-> <<>>])
      schemaEnvVars == {envVarNameOf(schema[i]) : i \in DOMAIN schema}
  IN [parsed |-> result.parsed, used |-> result.used, errors |-> result.errors,
      ignored |-> {envVar \in DOMAIN env :
                     /\ env[envVar] # <<>>
                     /\ envVar \notin schemaEnvVars
                     /\ envVar \notin Range(result.used)}]

\* envValue !== undefined && envValue !== ''
hasEnvValue(field, env) ==
  env[envVarNameOf(field)] # <<>> /\ env[envVarNameOf(field)][1] # ""

\* result.errors.find(e => e.key === key)
FindError(errors, key) == SelectSeq(errors, LAMBDA e : e.key = key)

\* the explanation of the default of a field, stamped t
DefaultExplanation(field, env, t) ==
  [source |-> "default", value |-> field.default,
   reason |-> <<"Default value for ", field.key[1]>>,
   precedence |-> 0, location |-> NoString,
   won |-> ~hasEnvValue(field, env), timestamp |-> t]

\* the explanation of the env value of a field, stamped t
EnvExplanation(field, env, result, t) ==
  LET envVarName == envVarNameOf(field)
      error == FindError(result.errors, field.key)
  IN IF error # <<>>
     THEN [source |-> "env", value |-> Str(env[envVarName][1]),
           reason |-> <<envVarName, " env var (parse error: ">> \o error[1].error
                        \o <<")">>,
           precedence |-> 10, location |-> NoString,
           won |-> FALSE, timestamp |-> t]
     ELSE [source |-> "env", value |-> GetProp(result.parsed, field.key),
           reason |-> <<envVarName, " env var">>,
           precedence |-> 10, location |-> NoString,
           won |-> TRUE, timestamp |-> t]

\* the number of times the loop of explainEnv reads Date.now()
RECURSIVE NowCalls(_, _)
NowCalls(schema, env) ==
  IF schema = <<>> THEN 0
  ELSE (IF Head(schema).default # Undefined THEN 1 ELSE 0)
       + (IF hasEnvValue(Head(schema), env) THEN 1 ELSE 0)
       + NowCalls(Tail(schema), env)

RECURSIVE ExplainFields(_, _, _, _, _)
\* the loop of explainEnv over the schema; ts holds the values of Date.now()
\* still to come
ExplainFields(schema, env, result, explained, ts) ==
  IF schema = <<>> THEN explained
  ELSE LET field == Head(schema)
           hasDefault == field.default # Undefined
           afterDefault ==
             IF hasDefault
             THEN _addExplanation(explained, field.key,
                                  DefaultExplanation(field, env, ts[1]))
             ELSE explained
           ts1 == IF hasDefault THEN Tail(ts) ELSE ts
           afterEnv ==
             IF hasEnvValue(field, env)
             THEN _addExplanation(afterDefault, field.key,
                                  EnvExplanation(field, env, result, ts1[1]))
             ELSE afterDefault
           ts2 == IF hasEnvValue(field, env) THEN Tail(ts1) ELSE ts1
       IN ExplainFields(Tail(schema), env, result, afterEnv, ts2)

explainEnv(schema, env, ts) ==
  LET result == parseEnv(env, schema)
  IN ExplainFields(schema, env, result, NewExplained(result.parsed, <<>>), ts)

----------------------------------------------------------------------------
(* The schemas and environments explainEnv is called with *)

EnvVars == {"PORT", "DEBUG", "CUSTOM"}

Field(key, type, default, required, envVar) ==
  [key |-> key, type |-> type, default |-> default, required |-> required,
   envVar |-> envVar]

PortFields ==
  {Field(<<"port">>, type, default, required, NoString) :
     type \in {"number", "string", "json"}, default \in {Undefined, Num(3000)},
     required \in BOOLEAN}

DebugFields ==
  {Field(<<"DEBUG">>, "boolean", default, required, envVar) :
     default \in {Undefined, Bool(FALSE)}, required \in BOOLEAN,
     envVar \in {NoString, "CUSTOM"}}

Schemas ==
  {<<f>> : f \in PortFields \cup DebugFields}
  \cup {<<f, g>> : f \in PortFields, g \in DebugFields}

Environments == [EnvVars -> {<<>>} \cup {<<raw>> : raw \in Raws}]

\* explainEnv(schema, env); nothing in it throws: the errors of parseValue
\* are caught by parseEnv and the errors parseEnv collects are only read
\* with find
ExplainEnv ==
  /\ ret = NoRet
  /\ \E schema \in Schemas, env \in Environments :
       \E ts \in Timestamps(now, NowCalls(schema, env)) :
         /\ ret' = [op |-> "explainEnv", schema |-> schema, env |-> env,
                    err |-> NoError, result |-> explainEnv(schema, env, ts)]
         /\ now' = LastTime(now, ts)
  /\ UNCHANGED <<sources, pool, tsVars, apiVars>>

NextEnv == ExplainEnv

SpecEnv == Init /\ [][NextEnv]_vars

----------------------------------------------------------------------------
(* Properties of the environment adapter *)

\* the text the variable of the field holds, <<>> when it is not set
RawOf(field) == ret.env[envVarNameOf(field)]

\* the variable of the field is set and parseValue fails on its text
ParseFails(field) ==
  /\ RawOf(field) # <<>>
  /\ RawOf(field)[1] # "" \/ field.type = "boolean"
  /\ parseValue(RawOf(field)[1], field.type).err # <<>>

\* the variable of the field is set to a non-empty text that parseValue accepts
ParsesNonEmpty(field) ==
  /\ RawOf(field) # <<>>
  /\ RawOf(field)[1] # ""
  /\ parseValue(RawOf(field)[1], field.type).err = <<>>

\* the entries of a list of explanations that come from the source
FromSource(exps, source) == {j \in DOMAIN exps : exps[j].source = source}

\* s holds the tokens of part, in order and next to each other
Contains(s, part) ==
  \E i \in 0..(Len(s) - Len(part)) : SubSeq(s, i + 1, i + Len(part)) = part

\* C12: when the env value of a field with a default is present and fails to
\* parse, the field's value is the default and the field has two explanations:
\* the default's, marked as the winner, and the env's, marked as lost, with
\* the raw value and the parse error in its reason.
C12_ParseFailureFallsBack ==
  ret.op = "explainEnv" =>
    \A i \in DOMAIN ret.schema :
      LET field == ret.schema[i]
          exps == explain(ret.result, field.key)
      IN (field.default # Undefined /\ ParseFails(field)) =>
           /\ GetProp(ret.result.value, field.key) = field.default
           /\ Len(exps) = 2
           /\ \E d \in FromSource(exps, "default") :
                exps[d].value = field.default /\ exps[d].won
           /\ \E e \in FromSource(exps, "env") :
                /\ ~exps[e].won
                /\ exps[e].value = Str(RawOf(field)[1])
                /\ Contains(exps[e].reason,
                            parseValue(RawOf(field)[1], field.type).err)

\* C13: when a required field without default has its variable absent (or
\* empty, for a type other than boolean), explainEnv fails with a
\* required-value error instead of returning a result.
C13_RequiredSurfaces ==
  ret.op = "explainEnv" =>
    \A i \in DOMAIN ret.schema :
      LET field == ret.schema[i]
      IN (/\ field.required
          /\ field.default = Undefined
          /\ \/ RawOf(field) = <<>>
             \/ RawOf(field) = <<"">> /\ field.type # "boolean")
           => ret.err # NoError

\* C14: for a field with a default, a non-empty env value that parses is the
\* field's value and the field has exactly two explanations, 'default' (the
\* default, lost) and 'env' (the parsed value, won, higher precedence); with
\* the variable unset the default is the value and the only winner.
C14_EnvOverDefault ==
  ret.op = "explainEnv" =>
    \A i \in DOMAIN ret.schema :
      LET field == ret.schema[i]
          exps == explain(ret.result, field.key)
          parsed == parseValue(RawOf(field)[1], field.type).value
      IN field.default # Undefined =>
           /\ ParsesNonEmpty(field) =>
                /\ GetProp(ret.result.value, field.key) = parsed
                /\ Len(exps) = 2
                /\ \E d \in FromSource(exps, "default"), e \in FromSource(exps, "env") :
                     /\ exps[d].value = field.default /\ ~exps[d].won
                     /\ exps[e].value = parsed /\ exps[e].won
                     /\ exps[e].precedence > exps[d].precedence
           /\ RawOf(field) = <<>> =>
                /\ GetProp(ret.result.value, field.key) = field.default
                /\ Len(exps) = 1
                /\ exps[1].source = "default" /\ exps[1].won

----------------------------------------------------------------------------
(* ConfigBuilder: [sources, currentPrecedence] *)

Max(x, y) == IF x >= y THEN x ELSE y

\* reason || fallback
ReasonOr(reason, fallback) == IF reason \in {NoString, ""} THEN fallback ELSE reason

\* variant: the highest precedence seen so far is not tracked
fromUntracked(bld, data, source) ==
  [sources |-> Append(bld.sources, [data |-> data, source |-> source]),
   currentPrecedence |-> bld.currentPrecedence]

\* from(data, source)
from(bld, data, source) ==
  [sources |-> Append(bld.sources, [data |-> data, source |-> source]),
   currentPrecedence |-> Max(bld.currentPrecedence, source.precedence)]

defaults(bld, data, reason) ==
  from(bld, data, Meta("defaults", 0, ReasonOr(reason, "Default configuration"), NoString))

env(bld, data, reason) ==
  from(bld, data, Meta("env", 10, ReasonOr(reason, "Environment variables"), NoString))

\* variant: files rank above the environment
fileAboveEnv(bld, data, filePath, reason) ==
  from(bld, data, Meta("file", 15, ReasonOr(reason, "Configuration file"), filePath))

file(bld, data, filePath, reason) ==
  from(bld, data, Meta("file", 5, ReasonOr(reason, "Configuration file"), filePath))

cli(bld, data, reason) ==
  from(bld, data, Meta("cli", 20, ReasonOr(reason, "Command-line arguments"), NoString))

\* add(data, sourceName, reason): currentPrecedence += 1, then from
add(bld, data, sourceName, reason) ==
  LET bumped == [bld EXCEPT !.currentPrecedence = @ + 1]
  IN from(bumped, data,
          Meta(sourceName, bumped.currentPrecedence,
               IF reason \in {NoString, ""} THEN "From " \o sourceName ELSE reason,
               NoString))

RECURSIVE AddSources(_, _)
\* for (const source of this.sources) resolver.addSource(source.data, source.source)
AddSources(resolver, srcs) ==
  IF srcs = <<>> THEN resolver
  ELSE AddSources(addSource(resolver, Head(srcs).data, Head(srcs).source), Tail(srcs))

\* build(), ts being the values of Date.now() during resolve()
build(bld, ts) == resolve(AddSources(<<>>, bld.sources), ts)

sourceCount(bld) == Len(bld.sources)

\* variant: clear() resets the precedence and keeps the sources
clearPrecedence(bld) == [sources |-> bld.sources, currentPrecedence |-> 0]

clear(bld) == [sources |-> <<>>, currentPrecedence |-> 0]

----------------------------------------------------------------------------
(* The builder as a state machine *)

\* at most this many sources are in a builder
MaxBuilder == 3

port8080 == Obj(<<[k |-> port, v |-> Num(8080)], [k |-> host, v |-> Num(1)]>>)

\* the data each method of the builder is called with
DatasOf(method) ==
  CASE method = "defaults" -> {port8080, Obj(<<[k |-> host, v |-> Num(1)]>>)}
    [] method = "file" ->
         {Obj(<<[k |-> port, v |-> Num(3000)], [k |-> host, v |-> Num(2)]>>)}
    [] method = "env" -> {Obj(<<[k |-> port, v |-> Num(4000)]>>)}
    [] method = "cli" -> {Obj(<<[k |-> port, v |-> Num(5000)]>>)}
    [] method = "from" -> {Obj(<<[k |-> port, v |-> Num(6000)]>>)}
    [] OTHER -> {Obj(<<[k |-> host, v |-> Num(3)], [k |-> port, v |-> Num(7000)]>>)}

\* a custom source, between the env and the cli band
Remote == Meta("remote", 15, "Remote configuration service", "https://config.example.com")

\* what the caller notes of a call that adds a source
Call(method, data, name) == [method |-> method, data |-> data, name |-> name]

Adding(method, data, name, after) ==
  /\ Len(builder.sources) < MaxBuilder
  /\ builder' = after
  /\ calls' = Append(calls, Call(method, data, name))
  /\ ret' = [op |-> method]
  /\ UNCHANGED <<now, sources, pool, tsVars, cleared, ledger, last>>

BuilderDefaults ==
  \E data \in DatasOf("defaults") :
    Adding("defaults", data, "defaults", defaults(builder, data, NoString))

BuilderEnv ==
  \E data \in DatasOf("env") : Adding("env", data, "env", env(builder, data, NoString))

BuilderFile ==
  \E data \in DatasOf("file") :
    Adding("file", data, "file", file(builder, data, "config.json", NoString))

BuilderCli ==
  \E data \in DatasOf("cli") : Adding("cli", data, "cli", cli(builder, data, NoString))

BuilderFrom ==
  \E data \in DatasOf("from") : Adding("from", data, Remote.name, from(builder, data, Remote))

BuilderAdd ==
  \E data \in DatasOf("add") :
    Adding("add", data, "custom", add(builder, data, "custom", NoString))

BuilderBuild ==
  /\ \E ts \in Timestamps(now, Len(builder.sources)) :
       /\ ret' = [op |-> "build", result |-> build(builder, ts),
                  inputs |-> ExplainedSources(builder.sources, ts),
                  added |-> builder.sources]
       /\ now' = LastTime(now, ts)
  /\ UNCHANGED <<sources, pool, tsVars, apiVars>>

BuilderClear ==
  /\ builder' = clear(builder)
  /\ calls' = <<>>
  /\ cleared' = (cleared \/ calls # <<>>)
  /\ ret' = [op |-> "clear"]
  /\ UNCHANGED <<now, sources, pool, tsVars, ledger, last>>

NextBuilder ==
  \/ BuilderDefaults \/ BuilderEnv \/ BuilderFile \/ BuilderCli
  \/ BuilderFrom \/ BuilderAdd \/ BuilderBuild \/ BuilderClear

SpecBuilder == Init /\ [][NextBuilder]_vars

----------------------------------------------------------------------------
(* Properties of the builder *)

\* the conventional bands: cli over env over file over defaults
Band(method) ==
  CASE method = "cli" -> 20 [] method = "env" -> 10 [] method = "file" -> 5
    [] OTHER -> 0

BandMethods == {"defaults", "file", "env", "cli"}

\* the calls since the last clear() that gave the key a value
CallsWith(key) == {i \in DOMAIN calls : HasKey(calls[i].data, key)}

\* C15: whatever the order of the calls of defaults(), file(), env() and
\* cli() before build(), the winner of a field is a source of the highest
\* band among those that set it (cli 20 > env 10 > file 5 > defaults 0), and
\* its value is the field's value.
C15_BandsDecide ==
  (ret.op = "build" /\ \A i \in DOMAIN calls : calls[i].method \in BandMethods) =>
    \A key \in InputKeys :
      LET exps == explain(ret.result, key)
      IN /\ Cardinality(WinnersAt(exps)) = 1
         /\ \A w \in WinnersAt(exps) :
              /\ GetProp(ret.result.value, key) = exps[w].value
              /\ \E i \in CallsWith(key) :
                   /\ exps[w].source = calls[i].method
                   /\ exps[w].precedence = Band(calls[i].method)
                   /\ exps[w].value = GetProp(calls[i].data, key)
                   /\ \A j \in CallsWith(key) :
                        Band(calls[i].method) >= Band(calls[j].method)

\* cli() was called first, then defaults(), then env(): cli wins port
C15_Witness ==
  /\ ret.op = "build"
  /\ Len(calls) = 3
  /\ calls[1].method = "cli" /\ calls[2].method = "defaults" /\ calls[3].method = "env"
  /\ \A i \in DOMAIN calls : HasKey(calls[i].data, port)
  /\ GetProp(ret.result.value, port) = Num(5000)
  /\ GetProp(ret.result.value, host) = Num(1)

\* the calls of add() since the last clear()
AddCalls == {i \in DOMAIN calls : calls[i].method = "add"}

\* C16: a source added with add() has a precedence strictly greater than
\* every source added before it since the last clear(), and at build() it
\* wins each of its fields unless a source added later claims the field with
\* at least its precedence.
C16_AddOutranksEarlier ==
  /\ \A i \in AddCalls :
       /\ i \in DOMAIN builder.sources
       /\ builder.sources[i].data = calls[i].data
       /\ \A j \in 1..(i - 1) :
            builder.sources[i].source.precedence > builder.sources[j].source.precedence
  /\ ret.op = "build" =>
       \A i \in AddCalls : \A key \in Range(ObjectKeys(calls[i].data)) :
         LET exps == explain(ret.result, key)
             own == ret.added[i].source.precedence
         IN /\ WinnersAt(exps) # {}
            /\ \A w \in WinnersAt(exps) :
                 /\ exps[w].precedence >= own
                 /\ (\A j \in CallsWith(key) :
                       j > i => ret.added[j].source.precedence < own)
                      => /\ exps[w].source = calls[i].name
                         /\ exps[w].precedence = own
                         /\ GetProp(ret.result.value, key) = GetProp(calls[i].data, key)

\* cli() and from(remote) came first, the source of add() wins port at 21
C16_Witness ==
  /\ ret.op = "build"
  /\ Len(calls) = 3
  /\ calls[1].method = "cli" /\ calls[2].method = "from" /\ calls[3].method = "add"
  /\ explainWinners(ret.result, port)[1].source = "custom"
  /\ explainWinners(ret.result, port)[1].precedence = 21
  /\ GetProp(ret.result.value, port) = Num(7000)

\* C17: sourceCount is the number of sources added since the most recent
\* clear() (0 right after it), and build() uses exactly the sources added
\* since that clear().
C17_CountSinceClear ==
  /\ sourceCount(builder) = Len(calls)
  /\ ret.op = "clear" => sourceCount(builder) = 0
  /\ ret.op = "build" =>
       /\ Len(ret.added) = Len(calls)
       /\ \A i \in DOMAIN calls :
            /\ ret.added[i].data = calls[i].data
            /\ ret.added[i].source.name = calls[i].name
       /\ \A key \in {port, host} :
            /\ HasKey(ret.result.value, key) = (CallsWith(key) # {})
            /\ Len(explain(ret.result, key)) = Cardinality(CallsWith(key))

\* sources were dropped by clear(), one was added after it, build() used it alone
C17_Witness ==
  /\ ret.op = "build"
  /\ cleared
  /\ Len(calls) = 1 /\ calls[1].method = "env"
  /\ sourceCount(builder) = 1
  /\ ret.result.value = calls[1].data
  /\ Len(explain(ret.result, port)) = 1

----------------------------------------------------------------------------
(* The ledger of one Explained instance, written with _addExplanation and   *)
(* _setExplanations and read with explain, explainAll and toJSON            *)

\* explainAll(): the entries of the Map whose key is not '__root__'
explainAll(e) == SelectSeq(e.explanations, LAMBDA entry : entry.path # ROOT)

\* toJSON() at time t
toJSON(e, t) ==
  [value |-> e.value, explanations |-> e.explanations,
   metadata |-> [sourcesCount |-> Len(e.explanations), resolvedAt |-> t]]

\* at most this many explanations are written to the ledger
MaxLedger == 3

\* the paths explanations are recorded at: two fields, the root sentinel and
\* the empty text
LedgerPaths == {port, host, ROOT, emptyKey}

\* a path nothing is recorded at
unknownPath == <<"missing">>

LedgerExplanation(source, precedence, won) ==
  [source |-> source, value |-> Num(precedence), reason |-> <<"From ", source>>,
   precedence |-> precedence, location |-> NoString, won |-> won, timestamp |-> 0]

LedgerExplanations ==
  { LedgerExplanation("defaults", 0, FALSE), LedgerExplanation("env", 10, FALSE),
    LedgerExplanation("cli", 20, TRUE) }

\* the number of explanations in the ledger
RECURSIVE Recorded(_)
Recorded(m) == IF m = <<>> THEN 0 ELSE Len(Head(m).exps) + Recorded(Tail(m))

LedgerAdd ==
  /\ Recorded(ledger.explanations) < MaxLedger
  /\ \E path \in LedgerPaths, explanation \in LedgerExplanations :
       ledger' = _addExplanation(ledger, path, explanation)
  /\ ret' = [op |-> "_addExplanation"]
  /\ UNCHANGED <<now, sources, pool, tsVars, builder, calls, cleared, last>>

\* _setExplanations(path, explanations) with no or one explanation
LedgerSet ==
  /\ \E path \in LedgerPaths,
        exps \in {<<>>} \cup {<<explanation>> : explanation \in LedgerExplanations} :
       /\ Recorded(_setExplanations(ledger, path, exps).explanations) <= MaxLedger
       /\ ledger' = _setExplanations(ledger, path, exps)
  /\ ret' = [op |-> "_setExplanations"]
  /\ UNCHANGED <<now, sources, pool, tsVars, builder, calls, cleared, last>>

LedgerExplain ==
  /\ \E path \in LedgerPaths \cup {unknownPath} :
       ret' = [op |-> "explain", path |-> path, result |-> explain(ledger, path)]
  /\ UNCHANGED <<now, sources, pool, tsVars, apiVars>>

LedgerExplainAll ==
  /\ ret' = [op |-> "explainAll", result |-> explainAll(ledger)]
  /\ UNCHANGED <<now, sources, pool, tsVars, apiVars>>

LedgerToJSON ==
  /\ \E t \in now..MaxTime :
       /\ ret' = [op |-> "toJSON", result |-> toJSON(ledger, t)]
       /\ now' = t
  /\ UNCHANGED <<sources, pool, tsVars, apiVars>>

NextLedger ==
  LedgerAdd \/ LedgerSet \/ LedgerExplain \/ LedgerExplainAll \/ LedgerToJSON

SpecLedger == Init /\ [][NextLedger]_vars

----------------------------------------------------------------------------
(* Properties of the ledger *)

\* the names of the sources recorded in a ledger
SourcesIn(m) == UNION {{m[i].exps[j].source : j \in DOMAIN m[i].exps} : i \in DOMAIN m}

\* C18: toJSON().metadata.sourcesCount is the number of distinct sources
\* recorded in the ledger (distinct source names across all explanations).
C18_DistinctSources ==
  ret.op = "toJSON" =>
    ret.result.metadata.sourcesCount = Cardinality(SourcesIn(ledger.explanations))

\* the paths of a Map
PathsOf(m) == {m[i].path : i \in DOMAIN m}

\* C19: explainAll() returns exactly the recorded paths other than
\* '__root__', each with the sequence explain(path) returns, and explain of a
\* path never recorded returns the empty sequence.
C19_ExplainAllMatchesExplain ==
  /\ ret.op = "explainAll" =>
       /\ PathsOf(ret.result) = PathsOf(ledger.explanations) \ {ROOT}
       /\ \A i \in DOMAIN ret.result :
            ret.result[i].exps = explain(ledger, ret.result[i].path)
  /\ (ret.op = "explain" /\ ret.path \notin PathsOf(ledger.explanations)) =>
       ret.result = <<>>

----------------------------------------------------------------------------
(* explainTSConfig(EntryPath, { followExtends: false }) *)

\* variant: the references of the entry document are resolved all the same
explainTSConfigResolving(files, configPath, t) ==
  LET resolved == resolveTSConfigPath(files, configPath)
      loaded == loadTSConfig(files, resolved.path)
      broken == {r \in Range(extendsArray(loaded.config)) :
                   resolveTSConfigPath(files, r).err # NoError}
  IN IF resolved.err # NoError
     THEN [err |-> resolved.err, result |-> NewExplained(Undefined, <<>>)]
     ELSE IF loaded.err # NoError
     THEN [err |-> loaded.err, result |-> NewExplained(Undefined, <<>>)]
     ELSE IF broken # {}
     THEN [err |-> "Cannot find tsconfig file", result |-> NewExplained(Undefined, <<>>)]
     ELSE [err |-> NoError,
           result |-> ExplainedFrom(loaded.config, resolved.path,
                                    <<"From ", resolved.path>>, 0, resolved.path, t)]

\* the branch `if (!followExtends)`: [err, result]
explainTSConfigEntry(files, configPath, t) ==
  LET resolved == resolveTSConfigPath(files, configPath)
      loaded == loadTSConfig(files, resolved.path)
  IN IF resolved.err # NoError
     THEN [err |-> resolved.err, result |-> NewExplained(Undefined, <<>>)]
     ELSE IF loaded.err # NoError
     THEN [err |-> loaded.err, result |-> NewExplained(Undefined, <<>>)]
     ELSE [err |-> NoError,
           result |-> ExplainedFrom(loaded.config, resolved.path,
                                    <<"From ", resolved.path>>, 0, resolved.path, t)]

\* explainTSConfig is called with followExtends = false, on some file system
TSEntryOnly ==
  /\ ret = NoRet /\ stack = <<>>
  /\ \E files \in FileSystems, t \in now..MaxTime :
       LET explained == explainTSConfigEntry(files, EntryPath, t)
       IN /\ fs' = files
          /\ ret' = [op |-> "explainTSConfig", followExtends |-> FALSE,
                     err |-> explained.err, result |-> explained.result]
          /\ now' = IF explained.err = NoError THEN t ELSE now
  /\ UNCHANGED <<sources, pool, stack, visited, apiVars>>

NextTSEntry == TSEntryOnly

SpecTSEntry == Init /\ [][NextTSEntry]_vars

\* C20: with followExtends = false only the entry document is loaded: the
\* call succeeds whenever the entry document can be located and parsed,
\* whatever its parents are; the value is the entry document's own content,
\* and the ledger is one root explanation with precedence 0 and won = true.
C20_EntryOnly ==
  ret.op = "explainTSConfig" =>
    /\ (fs[EntryPath].status = "ok") = (ret.err = NoError)
    /\ ret.err = NoError =>
         /\ ret.result.value = fs[EntryPath].config
         /\ \A key \in {strict, target} :
              Walk(ret.result.value, <<compilerOptions, key>>) =
                Walk(fs[EntryPath].config, <<compilerOptions, key>>)
         /\ _getPaths(ret.result) = <<ROOT>>
         /\ Len(explain(ret.result, NoPath)) = 1
         /\ RootOf(ret.result).precedence = 0
         /\ RootOf(ret.result).won
         /\ RootOf(ret.result).source = EntryPath
    /\ visited = {} /\ stack = <<>>

\* the entry document extends /b.json, which sets target: the call succeeds
\* and the value has the entry's strict and no target
C20_Witness ==
  /\ ret.op = "explainTSConfig" /\ ret.err = NoError
  /\ extendsArray(fs[EntryPath].config) = <<"/b">>
  /\ fs["/b.json"].status = "ok"
  /\ Walk(fs["/b.json"].config, <<compilerOptions, target>>) = Str("ES2018")
  /\ Walk(ret.result.value, <<compilerOptions, strict>>) = Bool(TRUE)
  /\ Walk(ret.result.value, <<compilerOptions, target>>) = Undefined

----------------------------------------------------------------------------
(* The resolver with sources whose fields hold nested objects, resolved     *)
(* more than once                                                           *)

database == <<"database">>
ssl == <<"ssl">>

NestedDatas ==
  { Obj(<<[k |-> port, v |-> Num(8080)],
          [k |-> database, v |-> Obj(<<[k |-> host, v |-> Num(1)],
                                       [k |-> ssl, v |-> Bool(TRUE)]>>)]>>),
    Obj(<<[k |-> database, v |-> Obj(<<[k |-> port, v |-> Num(5432)]>>)]>>) }

NestedMetas ==
  { Meta("defaults", 0, "Built-in defaults", NoString),
    Meta("env", 10, NoString, NoString),
    Meta("file", 10, NoString, "config.json") }

\* variant: the sort works on this.sources itself
sourcesSorted(srcs) == SortSources(srcs)

\* this.sources after resolve(): the sort works on a copy
sourcesKept(srcs) == srcs

\* what the caller keeps of a resolve() call: the sources it had, the value
\* and the winner of every path
Kept(r) ==
  [op |-> "resolve", added |-> r.added, value |-> r.result.value,
   winners |-> [i \in DOMAIN r.result.explanations |->
                  [path |-> r.result.explanations[i].path,
                   won |-> SelectSeq(r.result.explanations[i].exps, LAMBDA x : x.won)]]]

\* the winners without their timestamps
Unstamped(winners) ==
  [i \in DOMAIN winners |->
     [path |-> winners[i].path,
      won |-> [j \in DOMAIN winners[i].won |->
                 [source |-> winners[i].won[j].source,
                  value |-> winners[i].won[j].value,
                  precedence |-> winners[i].won[j].precedence]]]]

NestedAdd ==
  /\ Len(sources) < MaxSources
  /\ \E data \in NestedDatas, source \in NestedMetas :
       sources' = addSource(sources, data, source)
  /\ ret' = [op |-> "addSource"]
  /\ last' = IF ret.op = "resolve"
             THEN [Kept(ret) EXCEPT !.winners = Unstamped(@)] ELSE last
  /\ UNCHANGED <<now, pool, tsVars, builder, calls, cleared, ledger>>

NestedResolve ==
  /\ \E ts \in Timestamps(now, Len(sources)) :
       /\ ret' = [op |-> "resolve", result |-> resolve(sources, ts),
                  inputs |-> ExplainedSources(sources, ts), added |-> sources]
       /\ now' = LastTime(now, ts)
  /\ sources' = sourcesKept(sources)
  /\ last' = IF ret.op = "resolve"
             THEN [Kept(ret) EXCEPT !.winners = Unstamped(@)] ELSE last
  /\ UNCHANGED <<pool, tsVars, builder, calls, cleared, ledger>>

NextNested == NestedAdd \/ NestedResolve

SpecNested == Init /\ [][NextNested]_vars

----------------------------------------------------------------------------
(* Properties of the resolver on nested data *)

\* the added sources that hold the key
AddedWith(key) == {i \in DOMAIN ret.added : HasKey(ret.added[i].data, key)}

----------------------------------------------------------------------------
(* Precedences along the chain of resolveTSConfigChain *)

\* the positions of the chain that hold the document a reference resolves to
PositionsOf(chain, reference) ==
  {j \in DOMAIN chain : chain[j].path = resolveTSConfigPath(fs, reference).path}

\* C22: in every returned chain, for every document that declares several
\* parents, the precedences of those parents in the chain are strictly
\* increasing in declaration order and all strictly below the precedence of
\* the declaring document, also when a parent was visited earlier in the walk.
C22_ParentsIncreasing ==
  ChainReturned =>
    \A i \in DOMAIN ret.chain :
      LET parents == extendsArray(ret.chain[i].config)
      IN Len(parents) >= 2 =>
           \A m, n \in DOMAIN parents :
             \A j \in PositionsOf(ret.chain, parents[m]),
                k \in PositionsOf(ret.chain, parents[n]) :
               /\ ret.chain[j].precedence < ret.chain[i].precedence
               /\ m < n => ret.chain[j].precedence < ret.chain[k].precedence

\* C23: in every returned chain no two documents have the same precedence.
C23_DistinctPrecedences ==
  ChainReturned =>
    \A i, j \in DOMAIN ret.chain :
      ret.chain[i].precedence = ret.chain[j].precedence => i = j

\* the winner recorded for a path
Winner(e, path) == SelectSeq(explain(e, path), LAMBDA x : x.won)

\* C24: in every chain that the walk of explainTSConfig returns, the entry
\* document is present and is the last element, and its precedence is
\* strictly above that of every other document of the chain; in the merged
\* result every leaf path that the entry document sets has the entry
\* document as its winner and the entry document's value.
C24_EntryHighest ==
  ChainReturned =>
    LET chain == ret.chain
        entry == resolveTSConfigPath(fs, EntryPath).path
    IN /\ Len(chain) >= 1
       /\ chain[Len(chain)].path = entry
       /\ chain[Len(chain)].precedence = EntryPrecedence
       /\ \A i \in 1..(Len(chain) - 1) :
            chain[i].precedence < chain[Len(chain)].precedence
       /\ (ret.op = "explainTSConfig" /\ ret.err = NoError) =>
            \A key \in Range(ObjectKeys(LeafPaths(entry))) :
              /\ Len(Winner(ret.result, key)) = 1
              /\ Winner(ret.result, key)[1].source = entry
              /\ Winner(ret.result, key)[1].value = GetProp(LeafPaths(entry), key)
              /\ Walk(ret.result.value, Split(key)) = GetProp(LeafPaths(entry), key)

\* C26: for every result of explainTSConfig that follows extends and every
\* ledger path, walking the nested value along the segments of the path
\* reaches the value of the winning explanation recorded at that path.
C26_ValueMatchesLedger ==
  (ret.op = "explainTSConfig" /\ ret.err = NoError) =>
    \A path \in Range(_getPaths(ret.result)) :
      /\ Len(Winner(ret.result, path)) = 1
      /\ Walk(ret.result.value, Split(path)) = Winner(ret.result, path)[1].value

----------------------------------------------------------------------------
(* Explained.merge over inputs of every origin: Explained.from,             *)
(* new Explained, explainEnv, an earlier merge, with root explanations      *)
(* added by hand                                                            *)

debug == <<"debug">>

\* values passed to Explained.from
FromDatas == {Obj(<<[k |-> port, v |-> Num(3000)], [k |-> host, v |-> Num(1)]>>)}

\* new Explained({ debug: true, host: 2 }): no explanation at all
Bare ==
  NewExplained(Obj(<<[k |-> debug, v |-> Bool(TRUE)], [k |-> host, v |-> Num(2)]>>), <<>>)

\* explainEnv({ port: { type: 'number', default: 3000 } }, { PORT: '8080' })
FromEnvironment(t) ==
  explainEnv(<<Field(port, "number", Num(3000), FALSE, NoString)>>,
             [v \in EnvVars |-> IF v = "PORT" THEN <<"8080">> ELSE <<>>],
             <<t, t>>)

\* a root explanation recorded by hand
Override(t) ==
  [source |-> "override", value |-> Undefined, reason |-> <<"Set by hand">>,
   precedence |-> 20, location |-> NoString, won |-> TRUE, timestamp |-> t]

MergeFrom ==
  /\ Len(pool) < MaxPool
  /\ \E data \in FromDatas, source \in NestedMetas, t \in now..MaxTime :
       /\ pool' = Append(pool, ExplainedFrom(data, source.name, ReasonOf(source),
                                             source.precedence, source.location, t))
       /\ now' = t
  /\ ret' = [op |-> "from"]
  /\ UNCHANGED <<sources, tsVars, apiVars>>

MergeNew ==
  /\ Len(pool) < MaxPool
  /\ pool' = Append(pool, Bare)
  /\ ret' = [op |-> "new"]
  /\ UNCHANGED <<now, sources, tsVars, apiVars>>

MergeEnv ==
  /\ Len(pool) < MaxPool
  /\ pool' = Append(pool, FromEnvironment(now))
  /\ ret' = [op |-> "explainEnv"]
  /\ UNCHANGED <<now, sources, tsVars, apiVars>>

\* the result of the merge just made becomes an input
MergePrevious ==
  /\ Len(pool) < MaxPool
  /\ ret.op = "merge"
  /\ pool' = Append(pool, ret.result)
  /\ ret' = [op |-> "keep"]
  /\ UNCHANGED <<now, sources, tsVars, apiVars>>

\* _addExplanation('__root__', ...) on the instance created last
MergeAddRoot ==
  /\ pool # <<>>
  /\ Len(explain(pool[Len(pool)], NoPath)) <= 1
  /\ pool' = [pool EXCEPT ![Len(pool)] = _addExplanation(@, ROOT, Override(now))]
  /\ ret' = [op |-> "_addExplanation"]
  /\ UNCHANGED <<now, sources, tsVars, apiVars>>

MergeCall ==
  /\ ret.op # "merge"
  /\ \E args \in ArgLists :
       ret' = [op |-> "merge", result |-> merge([i \in DOMAIN args |-> pool[args[i]]]),
               inputs |-> [i \in DOMAIN args |-> pool[args[i]]], args |-> args]
  /\ UNCHANGED <<now, sources, pool, tsVars, apiVars>>

NextMerge ==
  MergeFrom \/ MergeNew \/ MergeEnv \/ MergePrevious \/ MergeAddRoot \/ MergeCall

SpecMerge == Init /\ [][NextMerge]_vars

----------------------------------------------------------------------------
(* The order of the ledger sequences of Explained.merge *)

\* precedence descending, ties by timestamp ascending
Ordered(exps) ==
  \A i, j \in DOMAIN exps :
    i < j => \/ exps[i].precedence > exps[j].precedence
             \/ /\ exps[i].precedence = exps[j].precedence
                /\ exps[i].timestamp <= exps[j].timestamp

----------------------------------------------------------------------------
(* Which inputs of Explained.merge contribute *)

\* the input holds at least one root explanation
Rooted(e) == Len(explain(e, NoPath)) > 0

\* the positions of the rooted inputs whose value contains the key
Contributors(key) ==
  {i \in DOMAIN ret.inputs : Rooted(ret.inputs[i]) /\ HasKey(ret.inputs[i].value, key)}

\* an explanation without its won mark
Provenance(x) ==
  [source |-> x.source, reason |-> x.reason, precedence |-> x.precedence,
   location |-> x.location, timestamp |-> x.timestamp]

\* what input i is expected to contribute for the key: the provenance of its
\* first root explanation and its own value of the key
Contribution(i, key) ==
  [from |-> Provenance(explain(ret.inputs[i], NoPath)[1]),
   value |-> GetProp(ret.inputs[i].value, key)]

\* C29: a key is in the merged value and in the ledger exactly when some
\* input with a root explanation contains it; inputs without a root
\* explanation (new Explained, explainEnv, an earlier merge) contribute
\* neither values nor explanations, and the provenance of an input's fields
\* is that of its first root explanation.
C29_RootedInputsOnly ==
  ret.op = "merge" =>
    /\ \A key \in InputKeys :
         /\ HasKey(ret.result.value, key) <=> Contributors(key) # {}
         /\ MapHas(ret.result.explanations, key) <=> Contributors(key) # {}
         /\ Len(explain(ret.result, key)) = Cardinality(Contributors(key))
         /\ \A i \in Contributors(key) :
              Cardinality({j \in DOMAIN explain(ret.result, key) :
                             [from |-> Provenance(explain(ret.result, key)[j]),
                              value |-> explain(ret.result, key)[j].value]
                               = Contribution(i, key)})
                = Cardinality({k \in Contributors(key) :
                                 Contribution(k, key) = Contribution(i, key)})
    /\ \A path \in Range(_getPaths(ret.result)) : path \in InputKeys
    /\ \A key \in Range(ObjectKeys(ret.result.value)) : key \in InputKeys

\* merged together: an input with two root explanations and an input that
\* has explanations for port but none at the root; port comes from the
\* former alone, with the provenance of its first root explanation
C29_Witness ==
  /\ ret.op = "merge"
  /\ Len(ret.inputs) = 2
  /\ \E i, k \in DOMAIN ret.inputs :
       /\ Len(explain(ret.inputs[i], NoPath)) = 2
       /\ explain(ret.inputs[i], NoPath)[1].source # "override"
       /\ ~Rooted(ret.inputs[k])
       /\ Len(explain(ret.inputs[k], port)) = 2
       /\ HasKey(ret.inputs[i].value, port)
       /\ GetProp(ret.inputs[k].value, port) # GetProp(ret.inputs[i].value, port)
       /\ GetProp(ret.result.value, port) = GetProp(ret.inputs[i].value, port)
       /\ explain(ret.result, port)[1].source = explain(ret.inputs[i], NoPath)[1].source
  /\ Len(explain(ret.result, port)) = 1

----------------------------------------------------------------------------
(* The ledger of ConfigResolver.resolve() against the added sources *)

AddedKeys == UNION {Range(ObjectKeys(ret.added[i].data)) : i \in DOMAIN ret.added}

\* what the explanation of added source i for the key is expected to carry
Carried(i, key) ==
  LET source == ret.added[i].source
  IN [source |-> source.name, precedence |-> source.precedence,
      reason |-> IF source.reason = NoString THEN <<"From ", source.name>>
                 ELSE <<source.reason>>,
      location |-> source.location,
      value |-> GetProp(ret.added[i].data, key)]

CarriedBy(x) ==
  [source |-> x.source, precedence |-> x.precedence, reason |-> x.reason,
   location |-> x.location, value |-> x.value]

----------------------------------------------------------------------------
(* resolve() called again *)

IsPrefix(s, t) == Len(s) <= Len(t) /\ s = SubSeq(t, 1, Len(s))

\* C30: resolve() leaves the registered sources and their order as they
\* were; a resolve() that follows another with no addition in between
\* returns the same merged value and the same winner for every field; a
\* source added after a resolve() takes part in the next one together with
\* all the earlier ones.
C30_ResolveKeepsSources ==
  ret.op = "resolve" =>
    /\ sources = ret.added
    /\ Len(ret.inputs) = Len(ret.added)
    /\ \A i \in DOMAIN ret.added :
         \A key \in Range(ObjectKeys(ret.added[i].data)) :
           \E j \in DOMAIN explain(ret.result, key) :
             explain(ret.result, key)[j].source = ret.added[i].source.name
    /\ last # NoRet =>
         /\ IsPrefix(last.added, ret.added)
         /\ last.added = ret.added =>
              /\ last.value = ret.result.value
              /\ last.winners = Unstamped(Kept(ret).winners)

\* two sources registered with the higher precedence first, resolved twice
\* in a row: the list still has the registration order
C30_Witness ==
  /\ ret.op = "resolve" /\ last # NoRet
  /\ Len(sources) = 2
  /\ sources[1].source.precedence > sources[2].source.precedence
  /\ last.added = sources
  /\ last.value = ret.result.value
  /\ explain(ret.result, database)[1].source = sources[1].source.name
  /\ Len(explain(ret.result, database)) = 2

----------------------------------------------------------------------------
(* The winner that explainEnv records against the value it returns *)

\* C28: for every result of explainEnv and every schema key with at least
\* one recorded explanation, exactly one explanation is marked won and its
\* value is the result's value for that key.
C28_OneWinnerIsValue ==
  ret.op = "explainEnv" =>
    \A i \in DOMAIN ret.schema :
      LET key == ret.schema[i].key
      IN Len(explain(ret.result, key)) >= 1 =>
           /\ Len(Winner(ret.result, key)) = 1
           /\ HasKey(ret.result.value, key)
           /\ Winner(ret.result, key)[1].value = GetProp(ret.result.value, key)

====
